---- MODULE Spec2Model ----
(***************************************************************************)
(* Sphinx header construction: the blinded key-derivation chain of         *)
(* header/keys.rs (derive) and the layered routing information of          *)
(* header/header.rs (generate_all_routing_info).                           *)
(*                                                                         *)
(* Byte strings are sequences over 0..255 and keep their real lengths.     *)
(* The curve group is modelled as the additive group of integers modulo    *)
(* GroupOrder, scalars as integers modulo GroupOrder; hashes, the HKDF and *)
(* the stream cipher are fixed deterministic functions of their inputs.    *)
(* Sequences are 1-based: element i of the source is element i+1 here.     *)
(***************************************************************************)
EXTENDS Integers, Sequences, FiniteSets, TLC

\* ------------------------------------------------------------------------
\* Bounds of the model
\* ------------------------------------------------------------------------
\* longest route explored (beyond MAX_PATH_LENGTH, to reach the overflow)
MaxRouteLen == 7
\* order of the model group
GroupOrder == 11
\* initial secrets explored: 1..MaxSecret
MaxSecret == 2
\* random padding bytes explored: 0..MaxPadByte (one value fills the padding)
MaxPadByte == 1
\* longest filler explored, in blocks of 2 * SECURITY_PARAMETER bytes
MaxFillerBlocks == 4
\* packet lengths explored: 0..MaxPacketSlack and PACKET_SIZE -+ MaxPacketSlack
MaxPacketSlack == 50

\* ------------------------------------------------------------------------
\* crate::constants
\* ------------------------------------------------------------------------
SECURITY_PARAMETER == 16
MAX_PATH_LENGTH == 5
DESTINATION_LENGTH == 32
IDENTIFIER_LENGTH == SECURITY_PARAMETER
INTEGRITY_MAC_SIZE == SECURITY_PARAMETER
INTEGRITY_MAC_KEY_SIZE == 32
STREAM_CIPHER_KEY_SIZE == 32
PAYLOAD_KEY_SIZE == 192
ROUTING_KEYS_LENGTH == STREAM_CIPHER_KEY_SIZE + INTEGRITY_MAC_KEY_SIZE + PAYLOAD_KEY_SIZE
STREAM_CIPHER_OUTPUT_LENGTH == (2 * MAX_PATH_LENGTH + 3) * SECURITY_PARAMETER
\* length of a SHA-256 digest
HMAC_OUTPUT_LENGTH == 32
\* header::HEADER_SIZE: the shared secret, the routing information, its MAC
HEADER_SIZE == 32 + (2 * MAX_PATH_LENGTH - 1) * SECURITY_PARAMETER + INTEGRITY_MAC_SIZE
PAYLOAD_SIZE == 1024
\* lib.rs
PACKET_SIZE == HEADER_SIZE + PAYLOAD_SIZE

\* ------------------------------------------------------------------------
\* Bytes
\* ------------------------------------------------------------------------
Min(a, b) == IF a <= b THEN a ELSE b

Fill(n, b) == [j \in 1..n |-> b]

RECURSIVE XorBits(_, _, _)
XorBits(a, b, n) ==
    IF n = 0 THEN 0
    ELSE ((a + b) % 2) + 2 * XorBits(a \div 2, b \div 2, n - 1)

\* x ^ y on nibbles, tabulated once
NibbleXor == [a \in 0..15 |-> [b \in 0..15 |-> XorBits(a, b, 4)]]

\* x1 ^ x2 on u8
XorByte(a, b) == 16 * NibbleXor[a \div 16][b \div 16] + NibbleXor[a % 16][b % 16]

\* utils::bytes::xor: a.iter().zip(b.iter()).map(|(x1, x2)| x1 ^ x2),
\* the result is as long as the shorter argument
xor(a, b) == [j \in 1..Min(Len(a), Len(b)) |-> XorByte(a[j], b[j])]

\* a short digest standing for SHA-256's compression of a byte string:
\* a weighted sum of the bytes of data[lo..hi], halving the range
RECURSIVE DigestFrom(_, _, _)
DigestFrom(data, lo, hi) ==
    IF lo > hi THEN 0
    ELSE IF lo = hi THEN ((data[lo] + 1) * (1 + ((lo * lo + 3 * lo) % 250))) % 251
    ELSE LET mid == (lo + hi) \div 2
         IN  (DigestFrom(data, lo, mid) + DigestFrom(data, mid + 1, hi)) % 251

Digest(data) == (DigestFrom(data, 1, Len(data)) + Len(data)) % 251

\* ------------------------------------------------------------------------
\* utils::crypto (curve, HMAC, HKDF, stream cipher)
\* ------------------------------------------------------------------------
Scalars == 0..(GroupOrder - 1)

CURVE_GENERATOR == 1 + (1 % (GroupOrder - 1))

\* curve point * scalar
PointMul(point, scalar) == (point * scalar) % GroupOrder

\* scalar * scalar
ScalarMul(a, b) == (a * b) % GroupOrder

\* the 32-byte encoding of a curve point (to_bytes), injective
PointBytes(point) == [j \in 1..32 |-> IF j = 1 THEN point % 256 ELSE 0]

\* HMAC-SHA256 of data under key: HMAC_OUTPUT_LENGTH bytes
HmacSha256(key, data) ==
    LET k == Digest(key)
        d == Digest(data)
    IN  [j \in 1..HMAC_OUTPUT_LENGTH |-> (k * 7 + d * 13 + j * 17 + 3) % 256]

\* Scalar::from_bytes_mod_order
ScalarFromBytesModOrder(bytes) == Digest(bytes) % GroupOrder

\* crypto::generate_pseudorandom_bytes(key, iv, length): the keystream
generate_pseudorandom_bytes(key, length) ==
    LET k == Digest(key)
    IN  [j \in 1..length |-> (k * 5 + j * j * 3 + j * 11 + 7) % 256]

\* crypto::compute_keyed_hmac(key, data) of utils::crypto
crypto_compute_keyed_hmac(key, data) == HmacSha256(key, data)

\* Hkdf::<Sha256>::new(None, ikm).expand(info, output): the info is the
\* fixed HKDF_INPUT_SEED, the output a function of the input key material
HkdfExpand(ikm, length) ==
    LET k == Digest(ikm)
    IN  [j \in 1..length |-> (k * 29 + j * 7 + 11) % 256]

\* ------------------------------------------------------------------------
\* header/keys.rs
\* ------------------------------------------------------------------------
compute_shared_key(node_pub_key, exponent) == PointMul(node_pub_key, exponent)

\* keys.rs compute_keyed_hmac(alpha, data) -> Scalar
compute_keyed_hmac(alpha, data) == ScalarFromBytesModOrder(HmacSha256(alpha, data))

compute_blinding_factor(shared_key, exponent) ==
    LET shared_secret == PointMul(CURVE_GENERATOR, exponent)
    IN  compute_keyed_hmac(PointBytes(shared_secret), PointBytes(shared_key))

key_derivation_function(shared_key) ==
    LET output == HkdfExpand(PointBytes(shared_key), ROUTING_KEYS_LENGTH)
    IN  [stream_cipher_key |-> SubSeq(output, 1, STREAM_CIPHER_KEY_SIZE)]

\* ------------------------------------------------------------------------
\* header/header.rs: the route model
\* ------------------------------------------------------------------------
HopKinds == {"ForwardHop", "FinalHop"}

\* the node at position i of a route: its address, SURB identifier and key
AddressOf(i) == Fill(DESTINATION_LENGTH, 16 + i)
IdentifierOf(i) == Fill(IDENTIFIER_LENGTH, 64 + i)
PubKeyOf(i) == 1 + ((3 * i) % (GroupOrder - 1))

MixNode(i) == [kind |-> "ForwardHop", address |-> AddressOf(i), pub_key |-> PubKeyOf(i)]

Destination(i) ==
    [kind |-> "FinalHop", address |-> AddressOf(i), identifier |-> IdentifierOf(i),
     pub_key |-> PubKeyOf(i)]

RouteElement(kind, i) == IF kind = "FinalHop" THEN Destination(i) ELSE MixNode(i)

\* every sequence of at most MaxRouteLen hops, well-formed or not
Routes ==
    UNION { { [i \in 1..n |-> RouteElement(kinds[i], i)] : kinds \in [1..n -> HopKinds] }
            : n \in 0..MaxRouteLen }

get_pub_key(route_element) == route_element.pub_key

\* the RoutingKeys handed to the header construction for position i
RoutingKeysOf(i) ==
    [stream_cipher_key |-> Fill(STREAM_CIPHER_KEY_SIZE, (3 * i + 1) % 256),
     header_integrity_hmac_key |-> Fill(INTEGRITY_MAC_KEY_SIZE, (5 * i + 2) % 256),
     payload_key |-> Fill(PAYLOAD_KEY_SIZE, (7 * i + 3) % 256)]

\* ------------------------------------------------------------------------
\* State
\* ------------------------------------------------------------------------
VARIABLES
    pc,                     \* position of the running call
    route,                  \* route: &[RouteElement]
    initial_secret,         \* derive: initial_secret
    initial_shared_secret,  \* derive: CURVE_GENERATOR * initial_secret
    accumulator,            \* derive: the state of the scan
    scan_pos,               \* derive: position of route.iter()
    collected,              \* derive: the keys collected so far
    key_material,           \* derive: the KeyMaterial returned
    routing_keys,           \* generate_all_routing_info: routing_keys
    filler_string,          \* generate_all_routing_info: filler_string
    final_block_len,        \* generate_final_routing_info: |xored_bytes|
    routing_info,           \* encapsulate...: routing_info
    loop_i,                 \* encapsulate...: i of the loop (0-based)
    result,                 \* the RoutingInfo returned
    panic,                  \* the message of the panic that ended the call
    packet_bytes,           \* SphinxPacket::from_bytes: bytes
    packet_result           \* SphinxPacket::from_bytes: what it returned

vars == <<pc, route, initial_secret, initial_shared_secret, accumulator, scan_pos,
          collected, key_material, routing_keys, filler_string, final_block_len,
          routing_info, loop_i, result, panic, packet_bytes, packet_result>>

deriveVars == <<initial_secret, initial_shared_secret, accumulator, scan_pos,
                collected, key_material>>

headerVars == <<routing_keys, filler_string, final_block_len, routing_info, loop_i, result,
                panic>>

packetVars == <<packet_bytes, packet_result>>

None == <<>>

Init ==
    /\ pc = "idle"
    /\ route \in Routes
    /\ initial_secret = 0
    /\ initial_shared_secret = 0
    /\ accumulator = 0
    /\ scan_pos = 0
    /\ collected = <<>>
    /\ key_material = None
    /\ routing_keys = <<>>
    /\ filler_string = <<>>
    /\ final_block_len = 0
    /\ routing_info = <<>>
    /\ loop_i = 0
    /\ result = None
    /\ panic = ""
    /\ packet_bytes = <<>>
    /\ packet_result = None

\* ------------------------------------------------------------------------
\* keys.rs derive
\* ------------------------------------------------------------------------
\* variant: the accumulator blinded after a FinalHop too
BlindAccumulatorAlways(acc, route_element, shared_key) ==
    ScalarMul(acc, compute_blinding_factor(shared_key, acc))

\* the accumulator after the scan's closure has seen route_element
BlindAccumulator(acc, route_element, shared_key) ==
    IF route_element.kind = "ForwardHop"
    THEN ScalarMul(acc, compute_blinding_factor(shared_key, acc))
    ELSE acc

\* variant: the keys collected in reverse order
CollectKeyInFront(keys, shared_key) == <<key_derivation_function(shared_key)>> \o keys

\* what collect() does with the item the scan yields
CollectKey(keys, shared_key) == Append(keys, key_derivation_function(shared_key))

\* variant: the first hop's public key in place of the generator
InitialSharedSecretOfFirstHop(secret) == PointMul(PubKeyOf(1), secret)

\* let initial_shared_secret = CURVE_GENERATOR * initial_secret
InitialSharedSecret(secret) == PointMul(CURVE_GENERATOR, secret)

DeriveBegin(x0) ==
    /\ pc = "idle"
    /\ pc' = "scan"
    /\ initial_secret' = x0
    /\ initial_shared_secret' = InitialSharedSecret(x0)
    /\ accumulator' = x0
    /\ scan_pos' = 1
    /\ collected' = <<>>
    /\ UNCHANGED <<route, key_material>>
    /\ UNCHANGED headerVars
    /\ UNCHANGED packetVars

DeriveScan ==
    /\ pc = "scan"
    /\ scan_pos <= Len(route)
    /\ LET route_element == route[scan_pos]
           shared_key == compute_shared_key(get_pub_key(route_element), accumulator)
       IN  /\ accumulator' = BlindAccumulator(accumulator, route_element, shared_key)
           /\ collected' = CollectKey(collected, shared_key)
    /\ scan_pos' = scan_pos + 1
    /\ UNCHANGED <<pc, route, initial_secret, initial_shared_secret, key_material>>
    /\ UNCHANGED headerVars
    /\ UNCHANGED packetVars

DeriveReturn ==
    /\ pc = "scan"
    /\ scan_pos > Len(route)
    /\ key_material' = [routing_keys |-> collected,
                        initial_shared_secret |-> initial_shared_secret]
    /\ pc' = "derived"
    /\ UNCHANGED <<route, initial_secret, initial_shared_secret, accumulator, scan_pos,
                   collected>>
    /\ UNCHANGED headerVars
    /\ UNCHANGED packetVars


\* ------------------------------------------------------------------------
\* usize arithmetic.  A usize is held as its residue r with -2^63 < r < 2^63:
\* r >= 0 stands for r, r < 0 for 2^64 + r.  With overflow checks (a debug
\* build) an overflowing operation panics, without them it wraps.
\* ------------------------------------------------------------------------
\* a <= b on usize
UsizeLe(a, b) ==
    IF a >= 0 /\ b >= 0 THEN a <= b
    ELSE IF a >= 0 THEN TRUE
    ELSE IF b >= 0 THEN FALSE
    ELSE a <= b

\* variant: a.saturating_sub(b)
UsizeSubSaturating(a, b) == IF b > a THEN 0 ELSE a - b

\* a - b on usize, wrapped
UsizeSub(a, b) == a - b

\* a - b leaves the range of usize
SubOverflows(a, b) == b > a

\* a usize above isize::MAX: no Vec or slice is that long
BeyondIsizeMax(n) == n < 0

Ok(bytes, block_len) == [ok |-> TRUE, bytes |-> bytes, block_len |-> block_len, panic |-> ""]

Panic(msg) == [ok |-> FALSE, bytes |-> <<>>, block_len |-> 0, panic |-> msg]

\* ------------------------------------------------------------------------
\* header/header.rs
\* ------------------------------------------------------------------------
\* (2 * (MAX_PATH_LENGTH - route_len) + 2) * SECURITY_PARAMETER
PaddedLength(route_len) ==
    (2 * UsizeSub(MAX_PATH_LENGTH, route_len) + 2) * SECURITY_PARAMETER

\* variant: a keystream slice of (2 * (MAX_PATH_LENGTH - route_len) + 2) blocks
KeystreamLengthShort(route_len) ==
    (2 * UsizeSub(MAX_PATH_LENGTH, route_len) + 2) * SECURITY_PARAMETER

\* (2 * (MAX_PATH_LENGTH - route_len) + 3) * SECURITY_PARAMETER
KeystreamLength(route_len) ==
    (2 * UsizeSub(MAX_PATH_LENGTH, route_len) + 3) * SECURITY_PARAMETER

\* variant: the SURB identifier left out
final_destination_bytes_address_only(destination) == destination.address

\* [address_bytes.to_vec(), surbidentifier.to_vec()].concat()
final_destination_bytes(destination) == destination.address \o destination.identifier

\* [final_destination_bytes.to_vec(), padding].concat()
padded_final_destination(destination, padding) ==
    final_destination_bytes(destination) \o padding

\* bytes::random(n), every byte drawn as pad_byte
random(n, pad_byte) == Fill(n, pad_byte)

generate_final_routing_info(filler, route_len, destination, pseudorandom_bytes, pad_byte, overflow_checks) ==
    LET address_len == Len(destination.address)
        limit == PaddedLength(route_len)
        padding_len == limit - address_len
        slice_end == KeystreamLength(route_len)
    IN  IF SubOverflows(MAX_PATH_LENGTH, route_len) /\ overflow_checks
        THEN Panic("attempt to subtract with overflow")
        ELSE IF ~UsizeLe(address_len, limit)
        THEN Panic("assertion failed: address_bytes.len() <= ...")
        ELSE IF BeyondIsizeMax(padding_len)
        THEN Panic("capacity overflow")
        ELSE IF ~UsizeLe(slice_end, Len(pseudorandom_bytes))
        THEN Panic("range end index out of range for slice")
        ELSE LET padding == random(padding_len, pad_byte)
                 xored_bytes == xor(padded_final_destination(destination, padding),
                                    SubSeq(pseudorandom_bytes, 1, slice_end))
             IN  Ok(xored_bytes \o filler, Len(xored_bytes))

generate_routing_info_integrity_mac(key, data) ==
    SubSeq(crypto_compute_keyed_hmac(key, data), 1, INTEGRITY_MAC_SIZE)

\* variant: the last bytes of the keystream in place of the first
encrypt_routing_info_keystream_tail(key, routing_info_components) ==
    LET pseudorandom_bytes == generate_pseudorandom_bytes(key, STREAM_CIPHER_OUTPUT_LENGTH)
        n == (2 * MAX_PATH_LENGTH - 1) * SECURITY_PARAMETER
    IN  xor(routing_info_components,
            SubSeq(pseudorandom_bytes, STREAM_CIPHER_OUTPUT_LENGTH - n + 1,
                   STREAM_CIPHER_OUTPUT_LENGTH))

encrypt_routing_info(key, routing_info_components) ==
    LET pseudorandom_bytes == generate_pseudorandom_bytes(key, STREAM_CIPHER_OUTPUT_LENGTH)
    IN  xor(routing_info_components,
            SubSeq(pseudorandom_bytes, 1, (2 * MAX_PATH_LENGTH - 1) * SECURITY_PARAMETER))

\* Option::None of route.last()
NoElement == [kind |-> "None"]

\* variant: route.last().cloned().unwrap_or(a default destination)
final_route_element_or_default(r) == IF Len(r) = 0 THEN Destination(0) ELSE r[Len(r)]

\* route.last().cloned()
final_route_element(r) == IF Len(r) = 0 THEN NoElement ELSE r[Len(r)]

\* the checks of generate_all_routing_info before the final routing info
\* is built: the message of the panic, "" when there is none
EntryPanic(r, keys) ==
    IF Len(keys) = 0 THEN "The keys should be already initialized"
    ELSE IF final_route_element(r) = NoElement THEN "The route should not be empty"
    ELSE IF final_route_element(r).kind # "FinalHop"
    THEN "The last route element must be a destination"
    ELSE ""

\* generate_all_routing_info up to the start of the encapsulation loop
GenerateAllRoutingInfo(keys, filler, pad_byte, overflow_checks) ==
    /\ pc = "idle"
    /\ routing_keys' = keys
    /\ filler_string' = filler
    /\ UNCHANGED route
    /\ UNCHANGED deriveVars
    /\ UNCHANGED packetVars
    /\ result' = None
    /\ IF EntryPanic(route, keys) # ""
       THEN /\ pc' = "panicked"
            /\ panic' = EntryPanic(route, keys)
            /\ UNCHANGED <<final_block_len, routing_info, loop_i>>
       ELSE LET final_keys == keys[Len(keys)]
                final_hop == final_route_element(route)
                pseudorandom_bytes ==
                    generate_pseudorandom_bytes(final_keys.stream_cipher_key,
                                                STREAM_CIPHER_OUTPUT_LENGTH)
                final_routing_info ==
                    generate_final_routing_info(filler, Len(route), final_hop,
                                                pseudorandom_bytes, pad_byte, overflow_checks)
            IN  IF final_routing_info.ok
                THEN /\ pc' = "wrap"
                     /\ panic' = ""
                     /\ final_block_len' = final_routing_info.block_len
                     /\ routing_info' = final_routing_info.bytes
                     /\ loop_i' = Len(route) - 2
                ELSE /\ pc' = "panicked"
                     /\ panic' = final_routing_info.panic
                     /\ UNCHANGED <<final_block_len, routing_info, loop_i>>

\* variant: the loop without its match on route[i]
WrapPanicKeysOnly(r, keys, i) ==
    IF i + 2 > Len(keys) THEN "index out of bounds" ELSE ""

\* the panic of one iteration of the loop, "" when there is none
WrapPanic(r, keys, i) ==
    IF i + 2 > Len(keys) THEN "index out of bounds"
    ELSE IF r[i + 1].kind # "ForwardHop" THEN "The next route element must be a mix node"
    ELSE ""

\* the address put in front of the layer of iteration i
next_node_hop_address(r, i) == r[i + 1].address

\* variant: the MAC keyed with the key of hop i itself
LayerMacKeyOfSameHop(keys, i) == keys[i + 1].header_integrity_hmac_key

\* the key of the MAC embedded in the layer of iteration i
LayerMacKey(keys, i) == keys[i + 2].header_integrity_hmac_key

\* one iteration of the loop of encapsulate_routing_info_and_integrity_macs
EncapsulateLayer(r, keys, i, info) ==
    LET routing_info_mac == generate_routing_info_integrity_mac(LayerMacKey(keys, i), info)
        routing_info_components == next_node_hop_address(r, i) \o routing_info_mac \o info
    IN  encrypt_routing_info(keys[i + 1].stream_cipher_key, routing_info_components)

EncapsulateStep ==
    /\ pc = "wrap"
    /\ loop_i >= 0
    /\ IF WrapPanic(route, routing_keys, loop_i) # ""
       THEN /\ pc' = "panicked"
            /\ panic' = WrapPanic(route, routing_keys, loop_i)
            /\ UNCHANGED <<routing_info, loop_i>>
       ELSE /\ routing_info' = EncapsulateLayer(route, routing_keys, loop_i, routing_info)
            /\ loop_i' = loop_i - 1
            /\ UNCHANGED <<pc, panic>>
    /\ UNCHANGED <<route, routing_keys, filler_string, final_block_len, result>>
    /\ UNCHANGED deriveVars
    /\ UNCHANGED packetVars

\* variant: the outer MAC keyed with the last hop's key
OuterRoutingInfoLastKey(keys, info) ==
    [enc_header |-> info,
     header_integrity_hmac |->
        generate_routing_info_integrity_mac(keys[Len(keys)].header_integrity_hmac_key, info)]

\* the RoutingInfo built after the loop
OuterRoutingInfo(keys, info) ==
    [enc_header |-> info,
     header_integrity_hmac |->
        generate_routing_info_integrity_mac(keys[1].header_integrity_hmac_key, info)]

EncapsulateReturn ==
    /\ pc = "wrap"
    /\ loop_i < 0
    /\ result' = OuterRoutingInfo(routing_keys, routing_info)
    /\ pc' = "returned"
    /\ UNCHANGED <<route, routing_keys, filler_string, final_block_len, routing_info, loop_i,
                   panic>>
    /\ UNCHANGED deriveVars
    /\ UNCHANGED packetVars

\* ------------------------------------------------------------------------
\* Inputs
\* ------------------------------------------------------------------------
InitialSecrets == 1..MaxSecret

\* key vectors of 0 .. |route| + 1 keys
KeyVectors(r) == { [i \in 1..n |-> RoutingKeysOf(i)] : n \in 0..(Len(r) + 1) }

\* fillers of 0 .. MaxFillerBlocks blocks of 2 * SECURITY_PARAMETER bytes
Fillers == { Fill(2 * SECURITY_PARAMETER * k, 170) : k \in 0..MaxFillerBlocks }

PadBytes == 0..MaxPadByte

Next ==
    \/ \E x0 \in InitialSecrets : DeriveBegin(x0)
    \/ DeriveScan
    \/ DeriveReturn
    \/ \E keys \in KeyVectors(route), filler \in Fillers, pad_byte \in PadBytes,
          overflow_checks \in BOOLEAN :
            GenerateAllRoutingInfo(keys, filler, pad_byte, overflow_checks)
    \/ EncapsulateStep
    \/ EncapsulateReturn

Spec == Init /\ [][Next]_vars


\* ------------------------------------------------------------------------
\* lib.rs: SphinxPacket::from_bytes
\* ------------------------------------------------------------------------
\* variant: only a packet that is too short is rejected
InvalidPacketLengthTooShortOnly(bytes) == Len(bytes) < PACKET_SIZE

\* bytes.len() != PACKET_SIZE
InvalidPacketLength(bytes) == Len(bytes) # PACKET_SIZE

\* SphinxHeader::from_bytes: the error of a header of the wrong length
HeaderError(header_bytes) ==
    IF Len(header_bytes) # HEADER_SIZE THEN "InvalidHeaderLengthError" ELSE ""

\* Payload::from_bytes: the error of a payload of the wrong length
PayloadError(payload_bytes) ==
    IF Len(payload_bytes) # PAYLOAD_SIZE THEN "InvalidPayloadLengthError" ELSE ""

\* what from_bytes returns, with the slices handed to the two parsers
PacketOutcome(err, header_parsed, header_bytes, payload_parsed, payload_bytes) ==
    [err |-> err,
     header_parsed |-> header_parsed, header_bytes |-> header_bytes,
     payload_parsed |-> payload_parsed, payload_bytes |-> payload_bytes]

from_bytes(bytes) ==
    IF InvalidPacketLength(bytes)
    THEN PacketOutcome("InvalidPacketLengthError", FALSE, <<>>, FALSE, <<>>)
    ELSE LET header_bytes == SubSeq(bytes, 1, HEADER_SIZE)
             payload_bytes == SubSeq(bytes, HEADER_SIZE + 1, Len(bytes))
         IN  IF HeaderError(header_bytes) # ""
             THEN PacketOutcome(HeaderError(header_bytes), TRUE, header_bytes, FALSE, <<>>)
             ELSE PacketOutcome(PayloadError(payload_bytes), TRUE, header_bytes,
                                TRUE, payload_bytes)

\* the packets explored: byte j of a packet is j mod 256
PacketBytes(n) == [j \in 1..n |-> j % 256]

\* the length of the too long packet of the tests
TooLongPacket == 6666

PacketLengths ==
    (0..MaxPacketSlack)
        \cup ((PACKET_SIZE - MaxPacketSlack)..(PACKET_SIZE + MaxPacketSlack))
        \cup {TooLongPacket}

FromBytes(bytes) ==
    /\ pc = "idle"
    /\ pc' = "parsed"
    /\ packet_bytes' = bytes
    /\ packet_result' = from_bytes(bytes)
    /\ UNCHANGED route
    /\ UNCHANGED deriveVars
    /\ UNCHANGED headerVars

PacketInit == Init /\ route = <<>>

PacketNext == \E n \in PacketLengths : FromBytes(PacketBytes(n))

SpecPacket == PacketInit /\ [][PacketNext]_vars


\* ------------------------------------------------------------------------
\* Properties
\* ------------------------------------------------------------------------
\* zero or more ForwardHop elements followed by exactly one FinalHop
WellFormedRoute(r) ==
    /\ Len(r) >= 1
    /\ r[Len(r)].kind = "FinalHop"
    /\ \A j \in 1..(Len(r) - 1) : r[j].kind = "ForwardHop"

ROUTING_INFO_LENGTH == (2 * MAX_PATH_LENGTH - 1) * SECURITY_PARAMETER

\* a call of generate_all_routing_info has started
InHeaderCall == pc \in {"wrap", "returned", "panicked"}

\* a call of derive has started
InDeriveCall == pc \in {"scan", "derived"}

\* C1: for every well-formed route of 1..MAX_PATH_LENGTH hops, with one key
\* per hop and a filler of 2*SECURITY_PARAMETER*(route_len-1) bytes, the
\* RoutingInfo returned has an enc_header of (2*MAX_PATH_LENGTH-1)*
\* SECURITY_PARAMETER bytes and a header_integrity_hmac of SECURITY_PARAMETER
\* bytes.
C1_LengthHiding ==
    ( /\ pc = "returned"
      /\ WellFormedRoute(route)
      /\ Len(route) <= MAX_PATH_LENGTH
      /\ Len(routing_keys) = Len(route)
      /\ Len(filler_string) = 2 * SECURITY_PARAMETER * (Len(route) - 1) )
    => /\ Len(result.enc_header) = ROUTING_INFO_LENGTH
       /\ Len(result.header_integrity_hmac) = SECURITY_PARAMETER

\* the secret a_i of the claim: a_1 = x0, a_(j+1) = a_j * H(g*a_j, pub_j*a_j)
\* after a ForwardHop and a_(j+1) = a_j after a FinalHop
RECURSIVE ChainSecret(_, _, _)
ChainSecret(r, x0, i) ==
    IF i = 1 THEN x0
    ELSE LET a == ChainSecret(r, x0, i - 1)
             b == compute_keyed_hmac(PointBytes(PointMul(CURVE_GENERATOR, a)),
                                     PointBytes(PointMul(r[i - 1].pub_key, a)))
         IN  IF r[i - 1].kind = "ForwardHop" THEN (a * b) % GroupOrder ELSE a

\* the product of the blinding factors of the forward hops before hop i
RECURSIVE BlindingProduct(_, _, _)
BlindingProduct(r, x0, i) ==
    IF i = 1 THEN 1
    ELSE LET a == ChainSecret(r, x0, i - 1)
             b == compute_keyed_hmac(PointBytes(PointMul(CURVE_GENERATOR, a)),
                                     PointBytes(PointMul(r[i - 1].pub_key, a)))
         IN  (BlindingProduct(r, x0, i - 1)
                * (IF r[i - 1].kind = "ForwardHop" THEN b ELSE 1)) % GroupOrder

\* C2: the routing keys derive returns at index i are
\* key_derivation_function(pub_key_i * a_i), a_i being x0 times the product
\* of the blinding factors of the forward hops before i.
C2_BlindingChain ==
    pc = "derived" =>
        \A i \in 1..Len(route) :
            /\ i <= Len(key_material.routing_keys)
            /\ key_material.routing_keys[i] =
                 key_derivation_function(
                    PointMul(route[i].pub_key, ChainSecret(route, initial_secret, i)))
            /\ ChainSecret(route, initial_secret, i) =
                 (initial_secret * BlindingProduct(route, initial_secret, i)) % GroupOrder

\* a route with a FinalHop before a later hop and a forward hop, derived
C2_Witness ==
    /\ pc = "derived"
    /\ Len(route) >= 3
    /\ \E j \in 1..(Len(route) - 1) : route[j].kind = "FinalHop"
    /\ \E j \in 1..(Len(route) - 1) : route[j].kind = "ForwardHop"
    /\ accumulator # initial_secret

\* C3: derive returns as many routing keys as the route has elements (also
\* for the empty route and for a route without destination), and every step
\* of the scan adds, after the keys collected so far, the key of the element
\* it is at.
C3_KeyCount ==
    /\ [](pc = "derived" => Len(key_material.routing_keys) = Len(route))
    /\ [](InDeriveCall => Len(collected) = scan_pos - 1)
    /\ [][(pc = "scan" /\ scan_pos' = scan_pos + 1) =>
            collected' = Append(collected,
                key_derivation_function(
                    compute_shared_key(route[scan_pos].pub_key, accumulator)))]_vars

\* a route of forward hops without destination, derived
C3_Witness ==
    /\ pc = "derived"
    /\ Len(route) = 3
    /\ \A j \in 1..3 : route[j].kind = "ForwardHop"
    /\ Len(key_material.routing_keys) = 3

\* C4: the initial_shared_secret derive returns is g * x0, whatever the
\* route and whatever blinding the accumulator has gone through.
C4_InitialSharedSecret ==
    /\ InDeriveCall => initial_shared_secret = PointMul(CURVE_GENERATOR, initial_secret)
    /\ pc = "derived" =>
         key_material.initial_shared_secret = PointMul(CURVE_GENERATOR, initial_secret)

\* derive has returned after the accumulator was blinded
C4_Witness ==
    /\ pc = "derived"
    /\ accumulator # initial_secret
    /\ key_material.initial_shared_secret # PointMul(CURVE_GENERATOR, accumulator)

\* C5: generate_all_routing_info on an empty route panics and returns no
\* RoutingInfo, whatever keys and filler it is given.
C5_EmptyRouteFails ==
    (Len(route) = 0 /\ InHeaderCall) =>
        /\ pc = "panicked"
        /\ result = None
        /\ routing_info = <<>>

\* the empty route, with a key and a filler supplied, has panicked
C5_Witness ==
    /\ Len(route) = 0
    /\ pc = "panicked"
    /\ Len(routing_keys) = 1
    /\ Len(filler_string) > 0
    /\ panic = "The route should not be empty"

\* the route breaks the placement of the hops
MisplacedHops(r) ==
    /\ Len(r) >= 1
    /\ \/ r[Len(r)].kind # "FinalHop"
       \/ \E j \in 1..(Len(r) - 1) : r[j].kind # "ForwardHop"

\* C6: generate_all_routing_info returns no RoutingInfo for a non-empty
\* route whose last element is no FinalHop or which has an element before
\* the last that is no ForwardHop.
C6_MisplacedHopsFail ==
    (MisplacedHops(route) /\ InHeaderCall) => (pc # "returned" /\ result = None)

\* a route with a FinalHop before its final FinalHop, with one key per hop,
\* has panicked in the loop
C6_Witness ==
    /\ pc = "panicked"
    /\ panic = "The next route element must be a mix node"
    /\ route[Len(route)].kind = "FinalHop"
    /\ Len(routing_keys) = Len(route)

\* C7: generate_all_routing_info returns no RoutingInfo when the number of
\* routing keys differs from the number of route elements.
C7_KeyVectorMismatchFails ==
    (InHeaderCall /\ Len(routing_keys) # Len(route)) => pc # "returned"

\* C8: generate_all_routing_info returns no RoutingInfo for a route longer
\* than MAX_PATH_LENGTH: the construction never gets past the final routing
\* information, with or without overflow checks.
C8_TooLongRouteFails ==
    (Len(route) > MAX_PATH_LENGTH /\ InHeaderCall) =>
        /\ pc = "panicked"
        /\ result = None
        /\ routing_info = <<>>

\* the subtraction has wrapped, the assertion has passed, and the padding
\* could not be allocated
C8_Witness ==
    /\ Len(route) > MAX_PATH_LENGTH + 1
    /\ WellFormedRoute(route)
    /\ Len(routing_keys) = Len(route)
    /\ pc = "panicked"
    /\ panic = "capacity overflow"

\* the final routing information has been built
FinalBlockBuilt == pc \in {"wrap", "returned"} /\ Len(route) \in 1..MAX_PATH_LENGTH

\* C9 as claimed: the encrypted final-hop block, before the filler, has
\* (2*(MAX_PATH_LENGTH - route_len) + 2)*SECURITY_PARAMETER bytes.
C9_FinalBlockLengthClaimed ==
    FinalBlockBuilt =>
        final_block_len = (2 * (MAX_PATH_LENGTH - Len(route)) + 2) * SECURITY_PARAMETER

\* C9 amended: the encrypted final-hop block, before the filler, has
\* (2*(MAX_PATH_LENGTH - route_len) + 3)*SECURITY_PARAMETER bytes: address,
\* SURB identifier and padding.
C9_FinalBlockLength ==
    FinalBlockBuilt =>
        /\ final_block_len = (2 * (MAX_PATH_LENGTH - Len(route)) + 3) * SECURITY_PARAMETER
        /\ final_block_len =
             DESTINATION_LENGTH + IDENTIFIER_LENGTH
               + ((2 * (MAX_PATH_LENGTH - Len(route)) + 2) * SECURITY_PARAMETER
                    - DESTINATION_LENGTH)

\* the final block of a route of MAX_PATH_LENGTH hops and of a single hop
C9_Witness ==
    /\ pc = "returned"
    /\ Len(route) = MAX_PATH_LENGTH
    /\ final_block_len = 3 * SECURITY_PARAMETER

\* generate_final_routing_info has just returned
FinalRoutingInfoReturned ==
    /\ pc = "wrap"
    /\ loop_i = Len(route) - 2
    /\ Len(route) \in 1..MAX_PATH_LENGTH

\* C10: the output of generate_final_routing_info has DESTINATION_LENGTH +
\* IDENTIFIER_LENGTH + ((2*(MAX_PATH_LENGTH - route_len) + 2)*
\* SECURITY_PARAMETER - DESTINATION_LENGTH) + |filler| bytes: address and
\* identifier are kept in full under the keystream, and the filler follows
\* the block unchanged.
C10_FinalRoutingInfoLength ==
    FinalRoutingInfoReturned =>
        LET destination == route[Len(route)]
            keystream ==
                generate_pseudorandom_bytes(routing_keys[Len(routing_keys)].stream_cipher_key,
                                            STREAM_CIPHER_OUTPUT_LENGTH)
            head == DESTINATION_LENGTH + IDENTIFIER_LENGTH
            block == head + ((2 * (MAX_PATH_LENGTH - Len(route)) + 2) * SECURITY_PARAMETER
                                - DESTINATION_LENGTH)
        IN  /\ Len(routing_info) = block + Len(filler_string)
            /\ xor(SubSeq(routing_info, 1, head), keystream)
                 = destination.address \o destination.identifier
            /\ SubSeq(routing_info, block + 1, Len(routing_info)) = filler_string

\* the final routing information of a route of three hops with a filler
\* that is not the one of its length
C10_Witness ==
    /\ FinalRoutingInfoReturned
    /\ Len(route) = 3
    /\ Len(filler_string) = 2 * SECURITY_PARAMETER
    /\ Len(routing_info) = 9 * SECURITY_PARAMETER


\* C12: from_bytes returns InvalidPacketLengthError for every input that is
\* not PACKET_SIZE bytes long, shorter or longer, and hands nothing to the
\* header and payload parsers; an input of PACKET_SIZE bytes is split at
\* HEADER_SIZE and both parts are parsed.
C12_PacketLength ==
    pc = "parsed" =>
        IF Len(packet_bytes) # PACKET_SIZE
        THEN /\ packet_result.err = "InvalidPacketLengthError"
             /\ ~packet_result.header_parsed
             /\ ~packet_result.payload_parsed
        ELSE /\ packet_result.err # "InvalidPacketLengthError"
             /\ packet_result.header_parsed
             /\ packet_result.payload_parsed
             /\ packet_result.header_bytes = SubSeq(packet_bytes, 1, HEADER_SIZE)
             /\ packet_result.payload_bytes
                  = SubSeq(packet_bytes, HEADER_SIZE + 1, PACKET_SIZE)

\* a packet one byte too long has been rejected
C12_Witness ==
    /\ pc = "parsed"
    /\ Len(packet_bytes) = PACKET_SIZE + 1
    /\ packet_result.err = "InvalidPacketLengthError"


\* an iteration of the wrapping loop has run to its end
LayerWrapped == pc = "wrap" /\ pc' = "wrap" /\ loop_i' # loop_i

\* the keystream hop loop_i removes from its layer
LayerKeystream ==
    SubSeq(generate_pseudorandom_bytes(routing_keys[loop_i + 1].stream_cipher_key,
                                       STREAM_CIPHER_OUTPUT_LENGTH),
           1, ROUTING_INFO_LENGTH)

\* what the iteration at loop_i encrypts
LayerComponents ==
    next_node_hop_address(route, loop_i)
        \o generate_routing_info_integrity_mac(LayerMacKey(routing_keys, loop_i), routing_info)
        \o routing_info

\* C13: one layer of encryption is reversible: whenever the loop encrypts
\* components of (2*MAX_PATH_LENGTH-1)*SECURITY_PARAMETER bytes, XOR-ing the
\* result with the first (2*MAX_PATH_LENGTH-1)*SECURITY_PARAMETER bytes of
\* the keystream of the same key gives the components again.
C13_EncryptRoundTrip ==
    [][(LayerWrapped /\ Len(LayerComponents) = ROUTING_INFO_LENGTH) =>
            /\ Len(routing_info') = ROUTING_INFO_LENGTH
            /\ xor(routing_info', LayerKeystream) = LayerComponents]_vars

\* a layer of exactly (2*MAX_PATH_LENGTH-1)*SECURITY_PARAMETER bytes has been
\* encrypted: five hops, no filler, second iteration
C13_Witness ==
    /\ pc = "wrap"
    /\ Len(route) = MAX_PATH_LENGTH
    /\ Len(filler_string) = 0
    /\ loop_i = MAX_PATH_LENGTH - 4
    /\ Len(routing_info) = ROUTING_INFO_LENGTH

\* C14: the address at the front of the layer encrypted under
\* routing_keys[i].stream_cipher_key is the address of route[i+1].
C14_NextHopAddress ==
    [][LayerWrapped =>
            SubSeq(xor(routing_info', LayerKeystream), 1, DESTINATION_LENGTH)
                = route[loop_i + 2].address]_vars

\* C15: the loop runs from i = route_len-2 down to 0 in steps of one, and
\* the MAC embedded in layer i is the truncated HMAC under
\* routing_keys[i+1]'s integrity key of the routing info as it was before
\* the layer was encrypted under hop i's key.
C15_WrapOrder ==
    /\ [](pc = "wrap" => loop_i \in (-1)..(Len(route) - 2))
    /\ [](FinalRoutingInfoReturned => loop_i = Len(route) - 2)
    /\ [][pc' = "returned" => loop_i = -1]_vars
    /\ [][LayerWrapped =>
            /\ loop_i >= 0
            /\ loop_i' = loop_i - 1
            /\ SubSeq(xor(routing_info', LayerKeystream),
                      DESTINATION_LENGTH + 1, DESTINATION_LENGTH + INTEGRITY_MAC_SIZE)
                 = SubSeq(crypto_compute_keyed_hmac(
                            routing_keys[loop_i + 2].header_integrity_hmac_key, routing_info),
                          1, INTEGRITY_MAC_SIZE)]_vars

\* a route of four hops has been wrapped three times and returned
C15_Witness ==
    /\ pc = "returned"
    /\ Len(route) = 4
    /\ Len(routing_keys) = 4
    /\ loop_i = -1
    /\ Len(result.enc_header) = ROUTING_INFO_LENGTH

\* C16: the header_integrity_hmac returned is the first INTEGRITY_MAC_SIZE
\* bytes of the HMAC under routing_keys[0]'s integrity key of exactly the
\* enc_header returned, which is the routing info as the loop left it (the
\* final routing information itself for a route of one hop).
C16_OuterMac ==
    pc = "returned" =>
        /\ result.enc_header = routing_info
        /\ result.header_integrity_hmac =
             SubSeq(crypto_compute_keyed_hmac(routing_keys[1].header_integrity_hmac_key,
                                              result.enc_header),
                    1, INTEGRITY_MAC_SIZE)
        /\ Len(route) = 1 => Len(result.enc_header) = final_block_len + Len(filler_string)

\* a well-formed route of three hops, with its keys, has returned
C16_Witness ==
    /\ pc = "returned"
    /\ WellFormedRoute(route)
    /\ Len(route) = 3
    /\ Len(routing_keys) = 3
    /\ Len(result.header_integrity_hmac) = INTEGRITY_MAC_SIZE

\* C17: every RoutingKeys value of key_derivation_function holds three keys,
\* the consecutive slices stream_cipher_key, integrity key, payload_key of
\* one HKDF expansion of ROUTING_KEYS_LENGTH bytes of a shared secret.
C17_ThreeKeysOfOneExpansion ==
    InDeriveCall =>
        \A i \in 1..Len(collected) :
            \E shared_key \in Scalars :
                LET output == HkdfExpand(PointBytes(shared_key), ROUTING_KEYS_LENGTH)
                    keys == collected[i]
                    mac_end == STREAM_CIPHER_KEY_SIZE + INTEGRITY_MAC_KEY_SIZE
                IN  /\ DOMAIN keys =
                         {"stream_cipher_key", "header_integrity_hmac_key", "payload_key"}
                    /\ keys.stream_cipher_key = SubSeq(output, 1, STREAM_CIPHER_KEY_SIZE)
                    /\ keys.header_integrity_hmac_key =
                         SubSeq(output, STREAM_CIPHER_KEY_SIZE + 1, mac_end)
                    /\ keys.payload_key = SubSeq(output, mac_end + 1, ROUTING_KEYS_LENGTH)


====
